---- MODULE Spec2Model ----
(***************************************************************************)
(* Model of coordinator/sources/sources.go: the SourcesManager, its commit *)
(* log (gitLog), the global sourcesLock, the shared working tree and the   *)
(* archive store.  Every caller of the manager is a process of Procs; the  *)
(* external commands (git, bash scripts) are the environment and their     *)
(* outcomes are chosen nondeterministically from the sets held in env.     *)
(***************************************************************************)
EXTENDS Integers, Sequences, FiniteSets, TLC

VARIABLES gitLog,       \* SourcesManager.gitLog
          logVer,       \* identity of the backing array of gitLog
          sourcesLock,  \* SourcesManager.sourcesLock: 0 free, else the holder
          pc,           \* position of every caller
          loc,          \* arguments and local variables of every caller
          callsLeft,    \* calls every caller may still start
          crashed,      \* an unrecovered panic ended the program
          env,          \* the inputs the environment may produce (fixed)
          stored,       \* history: every value gitLog has held
          headRef,      \* the ref checked out in the working tree
          sourcesExist, \* the sources directory exists
          binDir,       \* the binaries directory exists
          arcDir,       \* the archives directory exists
          binArchive,   \* binary archives: key -> 0 (absent), Partial, or the build that wrote it
          srcArchive,   \* source archives: hash -> 0 (absent), Partial, or the call that wrote it
          stream,       \* the progress stream of every caller's Compile
          hist          \* history: external commands run per archive key

logVars == <<gitLog, logVer, stored>>
fsVars == <<headRef, sourcesExist, binDir, arcDir, binArchive, srcArchive>>
vars == <<logVars, fsVars, stream, hist, sourcesLock, pc, loc, callsLeft, crashed, env>>

\* ---------------------------------------------------------------- bounds
MaxMain  == 4      \* longest mainline history exported
MaxPR    == 2      \* pull requests listed by the remote
MaxCalls == 2      \* calls per caller
MaxTail  == 2      \* mainline records after the third, where the order of the tail is looked at
Now      == 3000   \* time.Now(), in hours

\* ------------------------------------------------------------- constants
HeadRecords == 3      \* newGitLog[:3] / newGitLog[3:]
TwoDays     == 48     \* 2*24*time.Hour, in hours
NinetyDays  == 2160   \* 90*24*time.Hour, in hours

Procs == {1, 2}
PRIds == 1..MaxPR
ZeroTime == [set |-> FALSE, t |-> 0]     \* time.Time{}

\* A date string "Mon, 2 Jan 2006 15:04:05 -0700": well formed (denoting
\* hour t) or not.
DateString(t) == [wf |-> TRUE, t |-> t]
BadDate == [wf |-> FALSE, t |-> 0]

\* time.Parse(layout, s): the time and whether an error was returned.
ParseTime(s) ==
    IF s.wf THEN [time |-> [set |-> TRUE, t |-> s.t], err |-> FALSE]
            ELSE [time |-> ZeroTime, err |-> TRUE]

\* t.After(u) and t.Before(u) on parsed times (the zero time is before all).
Instant(x) == IF x.set THEN x.t ELSE -1
After(x, y) == Instant(x) > Instant(y)
Before(x, y) == Instant(x) < Instant(y)

\* ------------------------------------------------------- GitLogRecord
\* A mainline record as exported by git log: commit c of the history, its
\* parent, and the two raw date strings.
RawRecord(c, dateOk) ==
    [CommitHash |-> c, ParentCommitHash |-> c - 1, Subject |-> <<"commit", c>>,
     AuthoredString |-> IF dateOk THEN DateString(c) ELSE BadDate,
     CommittedString |-> IF dateOk THEN DateString(c) ELSE BadDate]

\* The export of a history of n commits, newest first; commit `bad` (0: none)
\* carries date strings that do not parse.
MainlineExport(n, bad) == [i \in 1..n |-> RawRecord(n + 1 - i, (n + 1 - i) # bad)]

\* The loop over newGitLog: parse both dates, ignore the errors, clear the
\* raw strings.
ParseDates(raw) ==
    [i \in 1..Len(raw) |->
        [CommitHash |-> raw[i].CommitHash,
         ParentCommitHash |-> raw[i].ParentCommitHash,
         Subject |-> raw[i].Subject,
         Authored |-> ParseTime(raw[i].AuthoredString).time,
         Committed |-> ParseTime(raw[i].CommittedString).time]]

PRHash(pr) == 100 + pr

\* The record appended to prGitLogs for a retained pull request.
PRRecord(pr, authored) ==
    [CommitHash |-> PRHash(pr), ParentCommitHash |-> 0,
     Subject |-> <<"PR", pr>>, Authored |-> authored, Committed |-> authored]

\* The retention test on a parsed authored date.
Retained(authored, mergeable) ==
    \/ After(authored, [set |-> TRUE, t |-> Now - TwoDays])
    \/ (mergeable /\ After(authored, [set |-> TRUE, t |-> Now - NinetyDays]))

\* One iteration of the loop over prHeadCommits, given what git log printed
\* for the head commit: the records to append (none when the command, the
\* JSON or the date fails, or the entry is not retained).
PREntry(pr, mergeable, out) ==
    IF out.fail \/ ~out.json THEN <<>>
    ELSE LET parsed == ParseTime(out.date)
         IN IF ~parsed.err /\ Retained(parsed.time, mergeable)
            THEN <<PRRecord(pr, parsed.time)>>
            ELSE <<>>

\* sort.Slice with less(i, j) = prGitLogs[j].Authored.Before(prGitLogs[i].Authored):
\* the result is some permutation in which no record is before its
\* predecessor; the order of equal dates is not determined.
IsPermutation(s, t) ==
    /\ Len(s) = Len(t)
    /\ \E f \in [1..Len(s) -> 1..Len(s)] :
          /\ \A i, j \in 1..Len(s) : i # j => f[i] # f[j]
          /\ \A i \in 1..Len(s) : t[i] = s[f[i]]

SortedNewestFirst(t) ==
    \A i \in 1..(Len(t) - 1) : ~Before(t[i].Authored, t[i + 1].Authored)

SortResults(s) ==
    {t \in [1..Len(s) -> {s[i] : i \in 1..Len(s)}] :
        IsPermutation(s, t) /\ SortedNewestFirst(t)}

\* Mutant of Assemble: the records after the third follow the pull requests
\* in reverse order.
AssembleReversesTail(newGitLog, prGitLogs) ==
    SubSeq(newGitLog, 1, HeadRecords) \o prGitLogs
        \o [i \in 1..(Len(newGitLog) - HeadRecords) |-> newGitLog[Len(newGitLog) + 1 - i]]

\* append(append(append([]GitLogRecord{}, newGitLog[:3]...), prGitLogs...),
\*        newGitLog[3:]...); defined when the slices are (Len >= 3).
Assemble(newGitLog, prGitLogs) ==
    SubSeq(newGitLog, 1, HeadRecords) \o prGitLogs
        \o SubSeq(newGitLog, HeadRecords + 1, Len(newGitLog))

AssemblePanics(newGitLog) == Len(newGitLog) < HeadRecords

\* What the working tree has checked out.
OnMain == [kind |-> "main", commit |-> 0]      \* TRANSACTION_PROCESSOR_MAIN_BRANCH
OnCommit(c) == [kind |-> "commit", commit |-> c]
NoTree == [kind |-> "none", commit |-> 0]
\* The default branch of the remote, when it is not the mainline branch.
OnDefault == [kind |-> "default", commit |-> 0]

\* ------------------------------------------------------------ callers
LocInit ==
    [op |-> "none", err |-> "none", val |-> <<>>,
     newGitLog |-> <<>>, prs |-> {}, heads |-> {}, pending |-> {},
     prGitLogs |-> <<>>, prOut |-> {},
     logBefore |-> <<>>, writes |-> 0,
     offset |-> 0, limit |-> 0, inc |-> FALSE, end |-> 0, retVer |-> 0,
     hash |-> 0, prof |-> FALSE, avoidLegacy |-> TRUE,
     phases |-> <<>>, okSeen |-> FALSE, sawArchive |-> FALSE, archiveSeen |-> 0,
     found |-> 0, failed |-> {}, lastIdx |-> 0, dirSeen |-> FALSE,
     treeLeft |-> NoTree, hadArchive |-> FALSE]

\* The positions of Compile at a `progress <- v`.
TickPcs == {"c_tick1", "c_tick2", "c_tick5", "c_tick10", "c_tick50", "c_tick90", "c_tick100"}

\* A caller that receives every value of a call.
ReadsAll == Cardinality(TickPcs)

\* No progress stream: what a caller holds before its first Compile, and after
\* it has let go of the stream of its last one to call another operation.
NoStream == [chan |-> FALSE, willRead |-> ReadsAll, sent |-> <<>>, closed |-> 0]

CanStart(p) ==
    /\ ~crashed
    /\ pc[p] \in {"idle", "done"}
    /\ callsLeft[p] > 0

\* return e (the error, "nil" for none) with the deferred sourcesLock.Unlock()
ReturnUnlock(p, e) ==
    /\ pc' = [pc EXCEPT ![p] = "done"]
    /\ sourcesLock' = 0
    /\ loc' = [loc EXCEPT ![p].err = e]

\* A panic unwinds (running the deferred Unlock) and, unrecovered, ends the
\* program.
Panic(p) ==
    /\ pc' = [pc EXCEPT ![p] = "panicked"]
    /\ sourcesLock' = IF sourcesLock = p THEN 0 ELSE sourcesLock
    /\ loc' = [loc EXCEPT ![p].err = "panic"]
    /\ crashed' = TRUE

\* ------------------------------------------------ updateCommitHistory
UpdateCommitHistoryCall(p) ==
    /\ CanStart(p)
    /\ "uch" \in env.menu[p]
    /\ pc' = [pc EXCEPT ![p] = "uch_lock"]
    /\ loc' = [loc EXCEPT ![p] = [LocInit EXCEPT !.op = "uch"]]
    /\ callsLeft' = [callsLeft EXCEPT ![p] = @ - 1]
    /\ stream' = [stream EXCEPT ![p] = NoStream]
    /\ UNCHANGED <<logVars, sourcesLock, crashed, env, fsVars, hist>>

\* s.sourcesLock.Lock()
UchLock(p) ==
    /\ ~crashed
    /\ pc[p] = "uch_lock"
    /\ sourcesLock = 0
    /\ sourcesLock' = p
    /\ pc' = [pc EXCEPT ![p] = "uch_export"]
    /\ loc' = [loc EXCEPT ![p].logBefore = gitLog]
    /\ UNCHANGED <<logVars, callsLeft, crashed, env, fsVars, stream, hist>>

\* `git log` names no ref: it exports the history of whatever is checked
\* out: the history of the branch when the tree is on the mainline or on
\* the remote's default branch, else the history that ends at the
\* checked-out commit.
ExportLens == IF headRef.kind = "commit" THEN {headRef.commit} ELSE env.lens

\* Mutant of UchExport: the parsed mainline history is stored at once.
UchExportStoresEarly(p) ==
    /\ ~crashed
    /\ pc[p] = "uch_export"
    /\ \E cmdOk \in env.cmdOk, jsonOk \in env.jsonOk, n \in ExportLens, bad \in env.bad :
          IF ~cmdOk THEN ReturnUnlock(p, "export") /\ UNCHANGED <<crashed, gitLog, stored>>
          ELSE IF n = 0 THEN Panic(p) /\ UNCHANGED <<gitLog, stored>>
          ELSE IF ~jsonOk THEN ReturnUnlock(p, "unmarshal") /\ UNCHANGED <<crashed, gitLog, stored>>
          ELSE /\ pc' = [pc EXCEPT ![p] = "uch_fetch"]
               /\ loc' = [loc EXCEPT ![p].newGitLog = ParseDates(MainlineExport(n, bad))]
               /\ gitLog' = ParseDates(MainlineExport(n, bad))
               /\ stored' = stored \cup {gitLog'}
               /\ UNCHANGED <<sourcesLock, crashed>>
    /\ UNCHANGED <<logVer, callsLeft, env, fsVars, stream, hist>>

\* git log --pretty=format:..., the sentinel replacement, json.Unmarshal and
\* the date loop.  The command may fail; its output may be empty (out[:len-1]
\* panics), may not be valid JSON, or is a history of n records.
UchExport(p) ==
    /\ ~crashed
    /\ pc[p] = "uch_export"
    /\ \E cmdOk \in env.cmdOk, jsonOk \in env.jsonOk, n \in ExportLens, bad \in env.bad :
          IF ~cmdOk THEN ReturnUnlock(p, "export") /\ UNCHANGED crashed
          ELSE IF n = 0 THEN Panic(p)
          ELSE IF ~jsonOk THEN ReturnUnlock(p, "unmarshal") /\ UNCHANGED crashed
          ELSE /\ pc' = [pc EXCEPT ![p] = "uch_fetch"]
               /\ loc' = [loc EXCEPT ![p].newGitLog = ParseDates(MainlineExport(n, bad))]
               /\ UNCHANGED <<sourcesLock, crashed>>
    /\ UNCHANGED <<logVars, callsLeft, env, fsVars, stream, hist>>

\* git fetch origin +refs/pull/*/head:refs/remotes/origin/pr-head/*
UchFetch(p) ==
    /\ ~crashed
    /\ pc[p] = "uch_fetch"
    /\ \E cmdOk \in env.cmdOk :
          IF ~cmdOk THEN ReturnUnlock(p, "fetch")
          ELSE /\ pc' = [pc EXCEPT ![p] = "uch_lsremote"]
               /\ UNCHANGED <<sourcesLock, loc>>
    /\ UNCHANGED <<logVars, callsLeft, crashed, env, fsVars, stream, hist>>

\* git ls-remote origin and the classification of its lines: merges are the
\* pull requests with a refs/pull/N/merge line, heads those with a
\* refs/pull/N/head line.
UchLsRemote(p) ==
    /\ ~crashed
    /\ pc[p] = "uch_lsremote"
    /\ \E cmdOk \in env.cmdOk, merges \in env.merges, heads \in env.heads :
          IF ~cmdOk THEN ReturnUnlock(p, "lsremote")
          ELSE /\ pc' = [pc EXCEPT ![p] = "uch_prloop"]
               /\ loc' = [loc EXCEPT ![p].prs = merges, ![p].heads = heads,
                                     ![p].pending = heads]
               /\ UNCHANGED sourcesLock
    /\ UNCHANGED <<logVars, callsLeft, crashed, env, fsVars, stream, hist>>

\* One iteration of `for pr := range prHeadCommits` (map order): git log -n 1
\* of the head commit, its JSON, its date, the retention test.
UchPRLog(p) ==
    /\ ~crashed
    /\ pc[p] = "uch_prloop"
    /\ \E pr \in loc[p].pending, out \in env.prLogs :
          loc' = [loc EXCEPT
                    ![p].pending = @ \ {pr},
                    ![p].prOut = @ \cup {<<pr, out>>},
                    ![p].prGitLogs = @ \o PREntry(pr, pr \in loc[p].prs, out)]
    /\ UNCHANGED <<logVars, sourcesLock, pc, callsLeft, crashed, env, fsVars, stream, hist>>

\* sort.Slice, the assignment to s.gitLog and return nil.
UchAssemble(p) ==
    /\ ~crashed
    /\ pc[p] = "uch_prloop"
    /\ loc[p].pending = {}
    /\ IF AssemblePanics(loc[p].newGitLog)
       THEN Panic(p) /\ UNCHANGED logVars
       ELSE \E sorted \in SortResults(loc[p].prGitLogs) :
               /\ gitLog' = Assemble(loc[p].newGitLog, sorted)
               /\ logVer' = logVer + 1
               /\ stored' = stored \cup {gitLog'}
               /\ pc' = [pc EXCEPT ![p] = "done"]
               /\ sourcesLock' = 0
               /\ loc' = [loc EXCEPT ![p].err = "nil", ![p].prGitLogs = sorted,
                                     ![p].writes = @ + 1]
               /\ UNCHANGED crashed
    /\ UNCHANGED <<callsLeft, env, fsVars, stream, hist>>

UchStep(p) ==
    \/ UchLock(p)
    \/ UchExport(p)
    \/ UchFetch(p)
    \/ UchLsRemote(p)
    \/ UchPRLog(p)
    \/ UchAssemble(p)

\* ----------------------------------------------------------- GetGitLog
\* GetGitLog takes no lock: every read of s.gitLog is a step of its own.
ZeroRecord ==
    [CommitHash |-> 0, ParentCommitHash |-> 0, Subject |-> <<"", 0>>,
     Authored |-> ZeroTime, Committed |-> ZeroTime]

GetGitLogCall(p) ==
    /\ CanStart(p)
    /\ "query" \in env.menu[p]
    /\ \E offset \in env.offsets, limit \in env.limits, inc \in env.incs :
          loc' = [loc EXCEPT ![p] = [LocInit EXCEPT !.op = "query", !.offset = offset,
                                        !.limit = limit, !.inc = inc,
                                        !.logBefore = gitLog]]
    /\ pc' = [pc EXCEPT ![p] = "q_empty"]
    /\ callsLeft' = [callsLeft EXCEPT ![p] = @ - 1]
    /\ stream' = [stream EXCEPT ![p] = NoStream]
    /\ UNCHANGED <<logVars, sourcesLock, crashed, env, fsVars, hist>>

\* return ret, e
QueryReturn(p, ret, e) ==
    /\ pc' = [pc EXCEPT ![p] = "done"]
    /\ loc' = [loc EXCEPT ![p].val = ret, ![p].err = e]

\* if len(s.gitLog) == 0 { return []GitLogRecord{}, nil }
QEmpty(p) ==
    /\ ~crashed
    /\ pc[p] = "q_empty"
    /\ IF Len(gitLog) = 0
       THEN QueryReturn(p, <<>>, "nil")
       ELSE pc' = [pc EXCEPT ![p] = "q_bounds"] /\ UNCHANGED loc
    /\ UNCHANGED <<logVars, sourcesLock, callsLeft, crashed, env, fsVars, stream, hist>>

\* if offset >= len(s.gitLog) { return ..., ErrGitLogOutOfBounds }
\* end := offset + limit
QBounds(p) ==
    /\ ~crashed
    /\ pc[p] = "q_bounds"
    /\ IF loc[p].offset >= Len(gitLog)
       THEN QueryReturn(p, <<>>, "oob")
       ELSE /\ pc' = [pc EXCEPT ![p] = "q_endcmp"]
            /\ loc' = [loc EXCEPT ![p].end = loc[p].offset + loc[p].limit]
    /\ UNCHANGED <<logVars, sourcesLock, callsLeft, crashed, env, fsVars, stream, hist>>

\* if end > len(s.gitLog)
QEndCmp(p) ==
    /\ ~crashed
    /\ pc[p] = "q_endcmp"
    /\ pc' = [pc EXCEPT ![p] = IF loc[p].end > Len(gitLog) THEN "q_endset" ELSE "q_slice"]
    /\ UNCHANGED <<logVars, sourcesLock, loc, callsLeft, crashed, env, fsVars, stream, hist>>

\* end = len(s.gitLog)
QEndSet(p) ==
    /\ ~crashed
    /\ pc[p] = "q_endset"
    /\ pc' = [pc EXCEPT ![p] = "q_slice"]
    /\ loc' = [loc EXCEPT ![p].end = Len(gitLog)]
    /\ UNCHANGED <<logVars, sourcesLock, callsLeft, crashed, env, fsVars, stream, hist>>

\* s.gitLog[offset:end] of the log as it is now.  Past the length the slice
\* expression panics or, where the capacity allows, yields the zeroed
\* records of the backing array.
SliceOutcomes(log, offset, end) ==
    IF offset < 0 \/ end < offset THEN {[panic |-> TRUE, ret |-> <<>>]}
    ELSE IF end <= Len(log) THEN {[panic |-> FALSE, ret |-> SubSeq(log, offset + 1, end)]}
    ELSE {[panic |-> TRUE, ret |-> <<>>],
          [panic |-> FALSE,
           ret |-> [i \in 1..(end - offset) |->
                      IF offset + i <= Len(log) THEN log[offset + i] ELSE ZeroRecord]]}

\* ret := s.gitLog[offset:end]; without alwaysIncludeInitial, return ret, nil
QSlice(p) ==
    /\ ~crashed
    /\ pc[p] = "q_slice"
    /\ \E o \in SliceOutcomes(gitLog, loc[p].offset, loc[p].end) :
          IF o.panic THEN Panic(p)
          ELSE /\ pc' = [pc EXCEPT ![p] = IF loc[p].inc THEN "q_oldestlen" ELSE "done"]
               /\ loc' = [loc EXCEPT ![p].val = o.ret, ![p].retVer = logVer,
                                     ![p].err = IF loc[p].inc THEN "none" ELSE "nil"]
               /\ UNCHANGED <<sourcesLock, crashed>>
    /\ UNCHANGED <<logVars, callsLeft, env, fsVars, stream, hist>>

\* len(s.gitLog) in the index expression of line 656: a read of the stored
\* log of its own.
QOldestLen(p) ==
    /\ ~crashed
    /\ pc[p] = "q_oldestlen"
    /\ pc' = [pc EXCEPT ![p] = "q_oldest"]
    /\ loc' = [loc EXCEPT ![p].lastIdx = Len(gitLog)]
    /\ UNCHANGED <<logVars, sourcesLock, callsLeft, crashed, env, fsVars, stream, hist>>

\* Mutant of QOldest: the oldest record is not repeated when the window
\* already ends with it.
QOldestDeduplicates(p) ==
    /\ ~crashed
    /\ pc[p] = "q_oldest"
    /\ IF loc[p].lastIdx < 1 \/ loc[p].lastIdx > Len(gitLog)
       THEN Panic(p)
       ELSE /\ pc' = [pc EXCEPT ![p] = "done"]
            /\ loc' = [loc EXCEPT ![p].val = IF loc[p].end = loc[p].lastIdx
                                             THEN @ ELSE Append(@, gitLog[loc[p].lastIdx]),
                                  ![p].err = "nil"]
            /\ UNCHANGED <<sourcesLock, crashed>>
    /\ UNCHANGED <<logVars, callsLeft, env, fsVars, stream, hist>>

\* s.gitLog[...] with the index just computed, a second read of the stored
\* log (it panics when the log now is shorter), then ret = append(ret, ...);
\* return ret, nil.  ret shares the backing array of the log it was sliced
\* from: when the window ends before that log's end, append has room and
\* writes the record in place, at index end of the stored log.
QOldest(p) ==
    /\ ~crashed
    /\ pc[p] = "q_oldest"
    /\ IF loc[p].lastIdx < 1 \/ loc[p].lastIdx > Len(gitLog)
       THEN Panic(p) /\ UNCHANGED logVars
       ELSE /\ pc' = [pc EXCEPT ![p] = "done"]
            /\ loc' = [loc EXCEPT ![p].val = Append(@, gitLog[loc[p].lastIdx]),
                                  ![p].err = "nil"]
            /\ IF loc[p].retVer = logVer /\ loc[p].end < Len(gitLog)
               THEN /\ gitLog' = [gitLog EXCEPT ![loc[p].end + 1] = gitLog[loc[p].lastIdx]]
                    /\ stored' = stored \cup {gitLog'}
                    /\ UNCHANGED logVer
               ELSE UNCHANGED logVars
            /\ UNCHANGED <<sourcesLock, crashed>>
    /\ UNCHANGED <<callsLeft, env, fsVars, stream, hist>>

QueryStep(p) ==
    \/ QEmpty(p)
    \/ QBounds(p)
    \/ QEndCmp(p)
    \/ QEndSet(p)
    \/ QSlice(p)
    \/ QOldestLen(p)
    \/ QOldest(p)

\* ------------------------------------------------------------- Compile
Key(p) == <<loc[p].hash, loc[p].prof>>

\* What is at an archive path: 0 when there is no file, Partial when the file
\* there is not a whole archive, and else the identity of the build or call
\* that wrote the whole archive.
Partial == -1

\* common.CreateArchive(directory, path) is not among the sources.  While it
\* runs the file it writes shows at the path or does not.
CreateArchiveShows == BOOLEAN

\* What common.CreateArchive returns and what it leaves at the path: the
\* whole archive and no error, or an error with nothing or with an archive
\* that is not whole.
ArchiveWhole == [err |-> FALSE, left |-> "whole"]
ArchiveFailed == [err |-> TRUE, left |-> "nothing"]
ArchivePartial == [err |-> TRUE, left |-> "partial"]
CreateArchiveOutcomes == {ArchiveWhole, ArchiveFailed, ArchivePartial}

\* The file at the path after the outcome o of a call that writes `id`.
FileLeft(o, id) ==
    IF o.left = "whole" THEN id ELSE IF o.left = "partial" THEN Partial ELSE 0

\* The pc after a step that is followed by `progress <- v`: the send when a
\* stream was given, else the step after it.
AfterTick(p, tick, next) == IF stream[p].chan THEN tick ELSE next

Ran(p, phase) == [loc EXCEPT ![p].phases = Append(@, phase)]

\* A call whose result the code does not look at: it has run, and when it
\* failed nothing but this record knows.
RanUnchecked(p, phase, ok) ==
    [loc EXCEPT ![p].phases = Append(@, phase),
                ![p].failed = IF ok THEN @ ELSE @ \cup {phase}]

\* return e: the deferred Unlock (when the lock was taken), then the deferred
\* `progress <- 100; close(progress)` when a stream was given.  h is the
\* command history after this step.
CompileReturn(p, e, l, h) ==
    /\ pc' = [pc EXCEPT ![p] = IF stream[p].chan THEN "c_tick100" ELSE "done"]
    /\ sourcesLock' = IF sourcesLock = p THEN 0 ELSE sourcesLock
    /\ loc' = [l EXCEPT ![p].err = e]
    /\ hist' = [h EXCEPT !.first[Key(p)] = IF @ # "none" THEN @
                                           ELSE IF e = "nil" THEN "nil" ELSE "failed",
                         !.atOk[Key(p)] = IF @ = 0 /\ e = "nil"
                                          THEN h.builds[Key(p)] ELSE @]

CompileCall(p) ==
    /\ CanStart(p)
    /\ "compile" \in env.menu[p]
    /\ \E h \in env.hashes, prof \in env.profs, ch \in env.chans[p] :
          /\ loc' = [loc EXCEPT ![p] = [LocInit EXCEPT !.op = "compile", !.hash = h,
                                           !.prof = prof,
                                           !.okSeen = hist.atOk[<<h, prof>>] > 0,
                                           !.hadArchive = binArchive[<<h, prof>>] # 0]]
          /\ \E rd \in (IF ch THEN env.readers ELSE {ReadsAll}) :
                stream' = [stream EXCEPT ![p] = [chan |-> ch, willRead |-> rd,
                                                 sent |-> <<>>, closed |-> 0]]
    /\ pc' = [pc EXCEPT ![p] = "c_path"]
    /\ callsLeft' = [callsLeft EXCEPT ![p] = @ - 1]
    /\ UNCHANGED <<logVars, sourcesLock, crashed, env, fsVars, hist>>

\* if _, err := os.Stat(dir); os.IsNotExist(err) { ... }: whether the caller
\* goes past the Mkdir, which it does when the directory exists and when
\* the Stat fails with an error other than "does not exist".
DirSeen(exists, statFails) == exists \/ statFails

\* The Stat of a directory by the call of p at `at`: to `mk` when the
\* directory was seen missing, else to `next`.
StatDir(p, at, exists, mk, next) ==
    /\ ~crashed
    /\ pc[p] = at
    /\ \E statFails \in env.statErr :
          /\ loc' = [loc EXCEPT ![p].dirSeen = DirSeen(exists, statFails)]
          /\ pc' = [pc EXCEPT ![p] = IF DirSeen(exists, statFails) THEN next ELSE mk]
    /\ UNCHANGED <<logVars, sourcesLock, callsLeft, crashed, env, fsVars, stream, hist>>

\* os.Mkdir(dir, 0755) succeeds when the system lets it and the directory is
\* not there; a directory made since the Stat fails it (EEXIST).
MkdirSucceeds(exists, ok) == ok /\ ~exists

\* BinariesArchivePath in Compile: os.Stat(binariesDir())
CPath(p) ==
    StatDir(p, "c_path", binDir, "c_mkdir", AfterTick(p, "c_tick1", "c_lock"))

\* BinariesArchivePath in Compile: os.Mkdir(binariesDir(), 0755)
CPathMkdir(p) ==
    /\ ~crashed
    /\ pc[p] = "c_mkdir"
    /\ \E ok \in env.cmdOk :
          IF MkdirSucceeds(binDir, ok)
          THEN /\ binDir' = TRUE
               /\ pc' = [pc EXCEPT ![p] = AfterTick(p, "c_tick1", "c_lock")]
               /\ UNCHANGED <<sourcesLock, loc, hist>>
          ELSE CompileReturn(p, "path", loc, hist) /\ UNCHANGED binDir
    /\ UNCHANGED <<logVars, callsLeft, crashed, env, headRef, sourcesExist, arcDir,
                   binArchive, srcArchive, stream>>

TickValue(at) ==
    CASE at = "c_tick1" -> 1
      [] at = "c_tick2" -> 2
      [] at = "c_tick5" -> 5
      [] at = "c_tick10" -> 10
      [] at = "c_tick50" -> 50
      [] at = "c_tick90" -> 90
      [] at = "c_tick100" -> 100

TickNext(at) ==
    CASE at = "c_tick1" -> "c_lock"
      [] at = "c_tick2" -> "c_stat"
      [] at = "c_tick5" -> "c_subsync"
      [] at = "c_tick10" -> "c_rmbuild"
      [] at = "c_tick50" -> "c_build"
      [] at = "c_tick90" -> "c_proxy"
      [] at = "c_tick100" -> "c_close"

\* progress <- v: the send on the caller's channel completes when the
\* caller receives it, and waits as long as the caller does not; willRead is
\* the number of values the caller receives before it stops reading
CTick(p) ==
    /\ ~crashed
    /\ pc[p] \in TickPcs
    /\ Len(stream[p].sent) < stream[p].willRead
    /\ stream' = [stream EXCEPT ![p].sent = Append(@, TickValue(pc[p]))]
    /\ pc' = [pc EXCEPT ![p] = TickNext(pc[p])]
    /\ UNCHANGED <<logVars, sourcesLock, loc, callsLeft, crashed, env, fsVars, hist>>

\* Mutant of CClose: the call ends leaving the stream open.
CCloseStaysOpen(p) ==
    /\ ~crashed
    /\ pc[p] = "c_close"
    /\ pc' = [pc EXCEPT ![p] = "done"]
    /\ UNCHANGED <<logVars, sourcesLock, loc, callsLeft, crashed, env, fsVars, hist, stream>>

\* close(progress)
CClose(p) ==
    /\ ~crashed
    /\ pc[p] = "c_close"
    /\ stream' = [stream EXCEPT ![p].closed = @ + 1]
    /\ pc' = [pc EXCEPT ![p] = "done"]
    /\ UNCHANGED <<logVars, sourcesLock, loc, callsLeft, crashed, env, fsVars, hist>>

\* s.sourcesLock.Lock()
CLock(p) ==
    /\ ~crashed
    /\ pc[p] = "c_lock"
    /\ sourcesLock = 0
    /\ sourcesLock' = p
    /\ pc' = [pc EXCEPT ![p] = AfterTick(p, "c_tick2", "c_stat")]
    /\ loc' = [loc EXCEPT ![p].okSeen = @ \/ hist.atOk[Key(p)] > 0]
    /\ UNCHANGED <<logVars, callsLeft, crashed, env, fsVars, stream, hist>>

\* What the existence test of p finds, recorded for the call.
Seen(p) == [loc EXCEPT ![p].sawArchive = binArchive[Key(p)] # 0,
                       ![p].archiveSeen = binArchive[Key(p)]]

\* !os.IsNotExist(err) of the os.Stat of a file: true when the file exists
\* and when the Stat fails with an error other than "does not exist".
NotIsNotExist(exists, statFails) == exists \/ statFails

\* Mutant of CStat: an existing archive is reported as a failure.
CStatFails(p) ==
    /\ ~crashed
    /\ pc[p] = "c_stat"
    /\ \E statFails \in env.statErr :
          IF NotIsNotExist(binArchive[Key(p)] # 0, statFails)
          THEN CompileReturn(p, "exists", Seen(p), hist)
          ELSE /\ pc' = [pc EXCEPT ![p] = "c_checkout"]
               /\ loc' = Seen(p)
               /\ UNCHANGED <<sourcesLock, hist>>
    /\ UNCHANGED <<logVars, callsLeft, crashed, env, fsVars, stream>>

\* if _, err := os.Stat(path); !os.IsNotExist(err) { return nil }
CStat(p) ==
    /\ ~crashed
    /\ pc[p] = "c_stat"
    /\ \E statFails \in env.statErr :
          IF NotIsNotExist(binArchive[Key(p)] # 0, statFails)
          THEN CompileReturn(p, "nil", Seen(p), hist)
          ELSE /\ pc' = [pc EXCEPT ![p] = "c_checkout"]
               /\ loc' = Seen(p)
               /\ UNCHANGED <<sourcesLock, hist>>
    /\ UNCHANGED <<logVars, callsLeft, crashed, env, fsVars, stream>>

\* git checkout hash
CCheckout(p) ==
    /\ ~crashed
    /\ pc[p] = "c_checkout"
    /\ \E ok \in env.cmdOk :
          LET h == hist
          IN IF ok /\ sourcesExist
             THEN /\ headRef' = OnCommit(loc[p].hash)
                  /\ pc' = [pc EXCEPT ![p] = AfterTick(p, "c_tick5", "c_subsync")]
                  /\ loc' = Ran(p, "checkout")
                  /\ hist' = h
                  /\ UNCHANGED sourcesLock
             ELSE CompileReturn(p, "checkout", Ran(p, "checkout"), h) /\ UNCHANGED headRef
    /\ UNCHANGED <<logVars, callsLeft, crashed, env, sourcesExist, binDir, arcDir, binArchive,
                   srcArchive, stream>>

\* A command of Compile that changes nothing the model holds: on success go
\* to `next`, on failure return e.
CCommand(p, at, phase, e, next) ==
    /\ ~crashed
    /\ pc[p] = at
    /\ \E ok \in env.cmdOk :
          IF ok
          THEN /\ pc' = [pc EXCEPT ![p] = next]
               /\ loc' = Ran(p, phase)
               /\ UNCHANGED <<sourcesLock, hist>>
          ELSE CompileReturn(p, e, Ran(p, phase), hist)
    /\ UNCHANGED <<logVars, callsLeft, crashed, env, fsVars, stream>>

\* git submodule sync
CSubSync(p) == CCommand(p, "c_subsync", "subsync", "subsync", "c_subupdate")

\* git submodule update --recursive
CSubUpdate(p) ==
    CCommand(p, "c_subupdate", "subupdate", "subupdate",
             AfterTick(p, "c_tick10", "c_rmbuild"))

\* os.RemoveAll(build): its error is not looked at
CRmBuild(p) ==
    /\ ~crashed
    /\ pc[p] = "c_rmbuild"
    /\ pc' = [pc EXCEPT ![p] = "c_tools"]
    /\ \E ok \in env.ioOk : loc' = RanUnchecked(p, "rmbuild", ok)
    /\ UNCHANGED <<logVars, sourcesLock, callsLeft, crashed, env, fsVars, stream, hist>>

\* A script of the environment setup: absent, it clears avoid_legacy_setup;
\* present, it is run, and its failure is returned.
CScript(p, at, phase, e, nextLegacy, nextModern) ==
    /\ ~crashed
    /\ pc[p] = at
    /\ \E present \in env.scripts, ok \in env.cmdOk :
          IF ~present
          THEN /\ pc' = [pc EXCEPT ![p] = nextLegacy]
               /\ loc' = [loc EXCEPT ![p].avoidLegacy = FALSE]
               /\ UNCHANGED <<sourcesLock, hist>>
          ELSE IF ok
          THEN /\ pc' = [pc EXCEPT ![p] = IF loc[p].avoidLegacy THEN nextModern ELSE nextLegacy]
               /\ loc' = Ran(p, phase)
               /\ UNCHANGED <<sourcesLock, hist>>
          ELSE CompileReturn(p, e, [Ran(p, phase) EXCEPT ![p].avoidLegacy = FALSE], hist)
    /\ UNCHANGED <<logVars, callsLeft, crashed, env, fsVars, stream>>

\* scripts/install-build-tools.sh
CTools(p) == CScript(p, "c_tools", "tools", "tools", "c_deps", "c_deps")

\* Mutant of CDeps: the legacy configuration is never attempted.
CDepsSkipsLegacy(p) ==
    CScript(p, "c_deps", "deps", "deps",
            AfterTick(p, "c_tick50", "c_build"), AfterTick(p, "c_tick50", "c_build"))

\* scripts/setup-dependencies.sh, then `if !avoid_legacy_setup`
CDeps(p) ==
    CScript(p, "c_deps", "deps", "deps", "c_legacy", AfterTick(p, "c_tick50", "c_build"))

\* scripts/configure.sh: its absence and its failure are returned
CLegacy(p) ==
    /\ ~crashed
    /\ pc[p] = "c_legacy"
    /\ \E present \in env.scripts, ok \in env.cmdOk :
          IF ~present
          THEN CompileReturn(p, "legacy", loc, hist)
          ELSE IF ok
          THEN /\ pc' = [pc EXCEPT ![p] = AfterTick(p, "c_tick50", "c_build")]
               /\ loc' = Ran(p, "configure")
               /\ UNCHANGED <<sourcesLock, hist>>
          ELSE CompileReturn(p, "legacy", Ran(p, "configure"), hist)
    /\ UNCHANGED <<logVars, callsLeft, crashed, env, fsVars, stream>>

\* scripts/build.sh
CBuild(p) ==
    /\ ~crashed
    /\ pc[p] = "c_build"
    /\ \E ok \in env.cmdOk :
          LET h == [hist EXCEPT !.builds[Key(p)] = @ + 1]
          IN IF ok
             THEN /\ pc' = [pc EXCEPT ![p] = AfterTick(p, "c_tick90", "c_proxy")]
                  /\ loc' = Ran(p, "build")
                  /\ hist' = h
                  /\ UNCHANGED sourcesLock
             ELSE CompileReturn(p, "build", Ran(p, "build"), h)
    /\ UNCHANGED <<logVars, callsLeft, crashed, env, fsVars, stream>>

\* common.CopyDir of the rpc_proxy subtree when it exists; its result is not
\* looked at
CProxy(p) ==
    /\ ~crashed
    /\ pc[p] = "c_proxy"
    /\ \E present \in env.scripts, ok \in env.ioOk :
          loc' = IF present THEN RanUnchecked(p, "proxy", ok) ELSE loc
    /\ pc' = [pc EXCEPT ![p] = "c_archive"]
    /\ UNCHANGED <<logVars, sourcesLock, callsLeft, crashed, env, fsVars, stream, hist>>

\* common.CreateArchive(binariesPath, path) is called; the file cannot be
\* made in a binaries directory that is not there
CArchive(p) ==
    /\ ~crashed
    /\ pc[p] = "c_archive"
    /\ IF binDir
       THEN /\ \E shows \in env.arcShows :
                  binArchive' = IF shows THEN [binArchive EXCEPT ![Key(p)] = Partial]
                                ELSE binArchive
            /\ pc' = [pc EXCEPT ![p] = "c_archive_wait"]
            /\ loc' = Ran(p, "archive")
            /\ UNCHANGED <<sourcesLock, hist>>
       ELSE /\ CompileReturn(p, "archive", Ran(p, "archive"), hist)
            /\ UNCHANGED binArchive
    /\ UNCHANGED <<logVars, callsLeft, crashed, env, headRef, sourcesExist, binDir,
                   arcDir, srcArchive, stream>>

\* return common.CreateArchive(binariesPath, path)
CArchiveReturn(p) ==
    /\ ~crashed
    /\ pc[p] = "c_archive_wait"
    /\ \E o \in env.archive :
          /\ binArchive' = [binArchive EXCEPT ![Key(p)] = FileLeft(o, hist.builds[Key(p)])]
          /\ CompileReturn(p, IF o.err THEN "archive" ELSE "nil", loc, hist)
    /\ UNCHANGED <<logVars, callsLeft, crashed, env, headRef, sourcesExist, binDir,
                   arcDir, srcArchive, stream>>

CompileStep(p) ==
    \/ CPath(p)
    \/ CPathMkdir(p)
    \/ CTick(p)
    \/ CClose(p)
    \/ CLock(p)
    \/ CStat(p)
    \/ CCheckout(p)
    \/ CSubSync(p)
    \/ CSubUpdate(p)
    \/ CRmBuild(p)
    \/ CTools(p)
    \/ CDeps(p)
    \/ CLegacy(p)
    \/ CBuild(p)
    \/ CProxy(p)
    \/ CArchive(p)
    \/ CArchiveReturn(p)

\* ------------------------------------------------- BinariesArchivePath
\* return v, e of an operation that holds no lock
PlainReturn(p, v, e) ==
    /\ pc' = [pc EXCEPT ![p] = "done"]
    /\ loc' = [loc EXCEPT ![p].val = v, ![p].err = e]

\* BinariesArchivePath called on its own.
BinariesArchivePathCall(p) ==
    /\ CanStart(p)
    /\ "binpath" \in env.menu[p]
    /\ \E h \in env.hashes, prof \in env.profs :
          loc' = [loc EXCEPT ![p] = [LocInit EXCEPT !.op = "binpath", !.hash = h,
                                        !.prof = prof]]
    /\ pc' = [pc EXCEPT ![p] = "bp_stat"]
    /\ callsLeft' = [callsLeft EXCEPT ![p] = @ - 1]
    /\ stream' = [stream EXCEPT ![p] = NoStream]
    /\ UNCHANGED <<logVars, sourcesLock, crashed, env, fsVars, hist>>

\* os.Stat(binariesDir())
BpStat(p) == StatDir(p, "bp_stat", binDir, "bp_mkdir", "bp_join")

\* os.Mkdir(binariesDir(), 0755)
BpMkdir(p) ==
    /\ ~crashed
    /\ pc[p] = "bp_mkdir"
    /\ \E ok \in env.cmdOk :
          IF MkdirSucceeds(binDir, ok)
          THEN /\ binDir' = TRUE
               /\ pc' = [pc EXCEPT ![p] = "bp_join"]
               /\ UNCHANGED loc
          ELSE PlainReturn(p, <<>>, "path") /\ UNCHANGED binDir
    /\ UNCHANGED <<logVars, sourcesLock, callsLeft, crashed, env, headRef, sourcesExist,
                   arcDir, binArchive, srcArchive, stream, hist>>

\* return filepath.Join(binariesDir(), ...), nil: the path of the key
BpJoin(p) ==
    /\ ~crashed
    /\ pc[p] = "bp_join"
    /\ PlainReturn(p, <<Key(p)>>, "nil")
    /\ UNCHANGED <<logVars, sourcesLock, callsLeft, crashed, env, fsVars, stream, hist>>

BinariesArchivePathStep(p) ==
    \/ BpStat(p)
    \/ BpMkdir(p)
    \/ BpJoin(p)

\* --------------------------------------------------- MakeCommitArchive
\* The identity of the running call of p, written into what it creates.
CallId(p) == 100 * p + callsLeft[p]

MakeCommitArchiveCall(p) ==
    /\ CanStart(p)
    /\ "mca" \in env.menu[p]
    /\ \E h \in env.hashes :
          loc' = [loc EXCEPT ![p] = [LocInit EXCEPT !.op = "mca", !.hash = h]]
    /\ pc' = [pc EXCEPT ![p] = "mca_lock"]
    /\ callsLeft' = [callsLeft EXCEPT ![p] = @ - 1]
    /\ stream' = [stream EXCEPT ![p] = NoStream]
    /\ UNCHANGED <<logVars, sourcesLock, crashed, env, fsVars, hist>>

\* Mutant of McaLock: the lock is taken without waiting for its holder.
McaLockNoWait(p) ==
    /\ ~crashed
    /\ pc[p] = "mca_lock"
    /\ sourcesLock' = p
    /\ pc' = [pc EXCEPT ![p] = "mca_dirstat"]
    /\ UNCHANGED <<logVars, loc, callsLeft, crashed, env, fsVars, stream, hist>>

\* s.sourcesLock.Lock()
McaLock(p) ==
    /\ ~crashed
    /\ pc[p] = "mca_lock"
    /\ sourcesLock = 0
    /\ sourcesLock' = p
    /\ pc' = [pc EXCEPT ![p] = "mca_dirstat"]
    /\ UNCHANGED <<logVars, loc, callsLeft, crashed, env, fsVars, stream, hist>>

\* archivePath in MakeCommitArchive: os.Stat(archiveDir)
McaDirStat(p) == StatDir(p, "mca_dirstat", arcDir, "mca_mkdir", "mca_stat")

\* archivePath in MakeCommitArchive: os.Mkdir(archiveDir, 0755)
McaMkdir(p) ==
    /\ ~crashed
    /\ pc[p] = "mca_mkdir"
    /\ \E ok \in env.cmdOk :
          IF MkdirSucceeds(arcDir, ok)
          THEN /\ arcDir' = TRUE
               /\ pc' = [pc EXCEPT ![p] = "mca_stat"]
               /\ UNCHANGED <<sourcesLock, loc>>
          ELSE ReturnUnlock(p, "path") /\ UNCHANGED arcDir
    /\ UNCHANGED <<logVars, callsLeft, crashed, env, headRef, sourcesExist, binDir,
                   binArchive, srcArchive, stream, hist>>

\* Mutant of McaStat: an existing archive does not end the call.
McaStatNeverReturns(p) ==
    /\ ~crashed
    /\ pc[p] = "mca_stat"
    /\ pc' = [pc EXCEPT ![p] = "mca_checkout"]
    /\ UNCHANGED <<logVars, sourcesLock, loc, callsLeft, crashed, env, fsVars, stream, hist>>

\* if _, err = os.Stat(path); !os.IsNotExist(err) { return nil }
McaStat(p) ==
    /\ ~crashed
    /\ pc[p] = "mca_stat"
    /\ \E statFails \in env.statErr :
          IF NotIsNotExist(srcArchive[loc[p].hash] # 0, statFails)
          THEN ReturnUnlock(p, "nil")
          ELSE /\ pc' = [pc EXCEPT ![p] = "mca_checkout"]
               /\ UNCHANGED <<sourcesLock, loc>>
    /\ UNCHANGED <<logVars, callsLeft, crashed, env, fsVars, stream, hist>>

\* A git checkout of `ref` by the holder of the lock: on success go to
\* `next`, on failure return e.
Checkout(p, at, ref, e, next) ==
    /\ ~crashed
    /\ pc[p] = at
    /\ \E ok \in env.cmdOk :
          IF ok /\ sourcesExist
          THEN /\ headRef' = ref
               /\ pc' = [pc EXCEPT ![p] = next]
               /\ UNCHANGED <<sourcesLock, loc>>
          ELSE ReturnUnlock(p, e) /\ UNCHANGED headRef
    /\ UNCHANGED <<logVars, callsLeft, crashed, env, sourcesExist, binDir, arcDir,
                   binArchive, srcArchive, stream, hist>>

\* A command that changes nothing the model holds: on success go to `next`,
\* on failure return e.
Command(p, at, e, next) ==
    /\ ~crashed
    /\ pc[p] = at
    /\ \E ok \in env.cmdOk :
          IF ok
          THEN pc' = [pc EXCEPT ![p] = next] /\ UNCHANGED <<sourcesLock, loc>>
          ELSE ReturnUnlock(p, e)
    /\ UNCHANGED <<logVars, callsLeft, crashed, env, fsVars, stream, hist>>

\* git checkout hash
McaCheckout(p) ==
    Checkout(p, "mca_checkout", OnCommit(loc[p].hash), "checkout", "mca_subsync")

\* git submodule sync
McaSubSync(p) == Command(p, "mca_subsync", "subsync", "mca_subupdate")

\* git submodule update --recursive
McaSubUpdate(p) == Command(p, "mca_subupdate", "subupdate", "mca_archive")

\* common.CreateArchive(sourcesDir(), path) is called; the file cannot be
\* made in an archives directory that is not there
McaArchive(p) ==
    /\ ~crashed
    /\ pc[p] = "mca_archive"
    /\ IF arcDir
       THEN /\ \E shows \in env.arcShows :
                  srcArchive' = IF shows THEN [srcArchive EXCEPT ![loc[p].hash] = Partial]
                                ELSE srcArchive
            /\ pc' = [pc EXCEPT ![p] = "mca_archive_wait"]
            /\ UNCHANGED <<sourcesLock, loc>>
       ELSE ReturnUnlock(p, "archive") /\ UNCHANGED srcArchive
    /\ UNCHANGED <<logVars, callsLeft, crashed, env, headRef, sourcesExist, binDir,
                   arcDir, binArchive, stream, hist>>

\* return common.CreateArchive(sourcesDir(), path)
McaArchiveReturn(p) ==
    /\ ~crashed
    /\ pc[p] = "mca_archive_wait"
    /\ \E o \in env.archive :
          /\ srcArchive' = [srcArchive EXCEPT ![loc[p].hash] = FileLeft(o, CallId(p))]
          /\ ReturnUnlock(p, IF o.err THEN "archive" ELSE "nil")
    /\ UNCHANGED <<logVars, callsLeft, crashed, env, headRef, sourcesExist, binDir,
                   arcDir, binArchive, stream, hist>>

McaStep(p) ==
    \/ McaLock(p)
    \/ McaDirStat(p)
    \/ McaMkdir(p)
    \/ McaStat(p)
    \/ McaCheckout(p)
    \/ McaSubSync(p)
    \/ McaSubUpdate(p)
    \/ McaArchive(p)
    \/ McaArchiveReturn(p)

\* --------------------------------------------------- ReadCommitArchive
\* ReadCommitArchive takes no lock.
ReadCommitArchiveCall(p) ==
    /\ CanStart(p)
    /\ "rca" \in env.menu[p]
    /\ \E h \in env.hashes :
          loc' = [loc EXCEPT ![p] = [LocInit EXCEPT !.op = "rca", !.hash = h]]
    /\ pc' = [pc EXCEPT ![p] = "rca_dirstat"]
    /\ callsLeft' = [callsLeft EXCEPT ![p] = @ - 1]
    /\ stream' = [stream EXCEPT ![p] = NoStream]
    /\ UNCHANGED <<logVars, sourcesLock, crashed, env, fsVars, hist>>

\* archivePath in ReadCommitArchive: os.Stat(archiveDir)
RcaDirStat(p) == StatDir(p, "rca_dirstat", arcDir, "rca_mkdir", "rca_stat")

\* archivePath in ReadCommitArchive: os.Mkdir(archiveDir, 0755)
RcaMkdir(p) ==
    /\ ~crashed
    /\ pc[p] = "rca_mkdir"
    /\ \E ok \in env.cmdOk :
          IF MkdirSucceeds(arcDir, ok)
          THEN /\ arcDir' = TRUE
               /\ pc' = [pc EXCEPT ![p] = "rca_stat"]
               /\ UNCHANGED loc
          ELSE PlainReturn(p, <<>>, "path") /\ UNCHANGED arcDir
    /\ UNCHANGED <<logVars, sourcesLock, callsLeft, crashed, env, headRef, sourcesExist,
                   binDir, binArchive, srcArchive, stream, hist>>

\* if _, err = os.Stat(path); os.IsNotExist(err) { return nil, fmt.Errorf(...) }
RcaStat(p) ==
    /\ ~crashed
    /\ pc[p] = "rca_stat"
    /\ \E statFails \in env.statErr :
          IF NotIsNotExist(srcArchive[loc[p].hash] # 0, statFails)
          THEN pc' = [pc EXCEPT ![p] = "rca_read"] /\ UNCHANGED loc
          ELSE PlainReturn(p, <<>>, "missing")
    /\ UNCHANGED <<logVars, sourcesLock, callsLeft, crashed, env, fsVars, stream, hist>>

\* return ioutil.ReadFile(path): the bytes of the archive, written by the
\* call whose identity they carry
RcaRead(p) ==
    /\ ~crashed
    /\ pc[p] = "rca_read"
    /\ \E ok \in env.ioOk :
          IF ok /\ srcArchive[loc[p].hash] # 0
          THEN PlainReturn(p, <<srcArchive[loc[p].hash]>>, "nil")
          ELSE PlainReturn(p, <<>>, "read")
    /\ UNCHANGED <<logVars, sourcesLock, callsLeft, crashed, env, fsVars, stream, hist>>

ReadCommitArchiveStep(p) ==
    \/ RcaDirStat(p)
    \/ RcaMkdir(p)
    \/ RcaStat(p)
    \/ RcaRead(p)

\* ---------------------------------- FindMostRecentCommitChangingSeeder
FindMostRecentCommitChangingSeederCall(p) ==
    /\ CanStart(p)
    /\ "seeder" \in env.menu[p]
    /\ \E h \in env.hashes :
          loc' = [loc EXCEPT ![p] = [LocInit EXCEPT !.op = "seeder", !.hash = h]]
    /\ pc' = [pc EXCEPT ![p] = "fs_lock"]
    /\ callsLeft' = [callsLeft EXCEPT ![p] = @ - 1]
    /\ stream' = [stream EXCEPT ![p] = NoStream]
    /\ UNCHANGED <<logVars, sourcesLock, crashed, env, fsVars, hist>>

\* s.sourcesLock.Lock()
FsLock(p) ==
    /\ ~crashed
    /\ pc[p] = "fs_lock"
    /\ sourcesLock = 0
    /\ sourcesLock' = p
    /\ pc' = [pc EXCEPT ![p] = "fs_checkout"]
    /\ UNCHANGED <<logVars, loc, callsLeft, crashed, env, fsVars, stream, hist>>

\* git checkout commitHash
FsCheckout(p) == Checkout(p, "fs_checkout", OnCommit(loc[p].hash), "checkout", "fs_log")

\* git log -1 --pretty=format:%H tools/shard-seeder/shard-seeder.cpp: the
\* most recent commit, at or before the one checked out, that changed the
\* file (0: no commit changed it, the output is empty).
FsLog(p) ==
    /\ ~crashed
    /\ pc[p] = "fs_log"
    /\ \E ok \in env.cmdOk, c \in 0..headRef.commit :
          IF ok
          THEN /\ pc' = [pc EXCEPT ![p] = "fs_main"]
               /\ loc' = [loc EXCEPT ![p].found = c]
               /\ UNCHANGED sourcesLock
          ELSE ReturnUnlock(p, "log")
    /\ UNCHANGED <<logVars, callsLeft, crashed, env, fsVars, stream, hist>>

\* Mutant of FsCheckoutMain: the hash is returned with the tree left where
\* the lookup ran.
FsCheckoutMainSkipped(p) ==
    /\ ~crashed
    /\ pc[p] = "fs_main"
    /\ pc' = [pc EXCEPT ![p] = "done"]
    /\ sourcesLock' = 0
    /\ loc' = [loc EXCEPT ![p].err = "nil", ![p].val = <<loc[p].found>>]
    /\ UNCHANGED <<logVars, callsLeft, crashed, env, fsVars, stream, hist>>

\* git checkout $TRANSACTION_PROCESSOR_MAIN_BRANCH; return commitHash, err
FsCheckoutMain(p) ==
    /\ ~crashed
    /\ pc[p] = "fs_main"
    /\ \E ok \in env.cmdOk :
          IF ok
          THEN /\ headRef' = OnMain
               /\ pc' = [pc EXCEPT ![p] = "done"]
               /\ sourcesLock' = 0
               /\ loc' = [loc EXCEPT ![p].err = "nil", ![p].val = <<loc[p].found>>]
          ELSE ReturnUnlock(p, "checkoutmain") /\ UNCHANGED headRef
    /\ UNCHANGED <<logVars, callsLeft, crashed, env, sourcesExist, binDir, arcDir,
                   binArchive, srcArchive, stream, hist>>

FsStep(p) ==
    \/ FsLock(p)
    \/ FsCheckout(p)
    \/ FsLog(p)
    \/ FsCheckoutMain(p)

\* ------------------------------------------------ EnsureSourcesUpdated
EnsureSourcesUpdatedCall(p) ==
    /\ CanStart(p)
    /\ "ensure" \in env.menu[p]
    /\ loc' = [loc EXCEPT ![p] = [LocInit EXCEPT !.op = "ensure"]]
    /\ pc' = [pc EXCEPT ![p] = "esu_stat"]
    /\ callsLeft' = [callsLeft EXCEPT ![p] = @ - 1]
    /\ stream' = [stream EXCEPT ![p] = NoStream]
    /\ UNCHANGED <<logVars, sourcesLock, crashed, env, fsVars, hist>>

\* if _, err = os.Stat(sourcesDir()); os.IsNotExist(err): clone, else update
EsuStat(p) ==
    /\ ~crashed
    /\ pc[p] = "esu_stat"
    /\ \E statFails \in env.statErr :
          pc' = [pc EXCEPT ![p] = IF DirSeen(sourcesExist, statFails) THEN "upd_lock"
                                                                      ELSE "clone_lock"]
    /\ UNCHANGED <<logVars, sourcesLock, loc, callsLeft, crashed, env, fsVars, stream, hist>>

\* cloneSources: s.sourcesLock.Lock()
CloneLock(p) ==
    /\ ~crashed
    /\ pc[p] = "clone_lock"
    /\ sourcesLock = 0
    /\ sourcesLock' = p
    /\ pc' = [pc EXCEPT ![p] = "clone_run"]
    /\ UNCHANGED <<logVars, loc, callsLeft, crashed, env, fsVars, stream, hist>>

\* url.Parse and the start of cmd.Run() of git clone url sources: git refuses
\* a directory that exists, and else creates it before it fetches
CloneStart(p) ==
    /\ ~crashed
    /\ pc[p] = "clone_run"
    /\ \E ok \in env.cmdOk :
          IF ok /\ ~sourcesExist
          THEN /\ sourcesExist' = TRUE
               /\ pc' = [pc EXCEPT ![p] = "clone_wait"]
               /\ UNCHANGED <<sourcesLock, loc>>
          ELSE ReturnUnlock(p, "clone") /\ UNCHANGED sourcesExist
    /\ UNCHANGED <<logVars, callsLeft, crashed, env, headRef, binDir, arcDir, binArchive,
                   srcArchive, stream, hist>>

\* The end of cmd.Run() of git clone: on success the tree is on the default
\* branch of the remote.  On failure cloneSources only returns the error
\* (592-597): git has removed the directory it made, or has left it in place
\* with no tree or with the tree of the default branch in it.
CloneRun(p) ==
    /\ ~crashed
    /\ pc[p] = "clone_wait"
    /\ \E ok \in env.cmdOk, ref \in env.cloneHeads, left \in env.cloneLeft :
          IF ok
          THEN /\ headRef' = ref
               /\ pc' = [pc EXCEPT ![p] = "clone_subsync"]
               /\ UNCHANGED <<sourcesLock, loc, sourcesExist>>
          ELSE /\ sourcesExist' = left
               /\ \E tree \in (IF left THEN {NoTree, ref} ELSE {NoTree}) : headRef' = tree
               /\ ReturnUnlock(p, "clone")
    /\ UNCHANGED <<logVars, callsLeft, crashed, env, binDir, arcDir, binArchive,
                   srcArchive, stream, hist>>

\* git submodule sync
CloneSubSync(p) == Command(p, "clone_subsync", "clone", "clone_subupdate")

\* The end of cloneSources or updateSources: the lock is released, and
\* EnsureSourcesUpdated calls updateCommitHistory, or returns the error.
\* treeLeft keeps the ref the working tree is left on.
LastCommand(p, at, e) ==
    /\ ~crashed
    /\ pc[p] = at
    /\ \E ok \in env.cmdOk :
          IF ok
          THEN /\ pc' = [pc EXCEPT ![p] = "uch_lock"]
               /\ sourcesLock' = 0
               /\ loc' = [loc EXCEPT ![p].treeLeft = headRef]
          ELSE ReturnUnlock(p, e)
    /\ UNCHANGED <<logVars, callsLeft, crashed, env, fsVars, stream, hist>>

\* git submodule update --init --recursive; return nil
CloneSubUpdate(p) == LastCommand(p, "clone_subupdate", "clone")

\* updateSources: s.sourcesLock.Lock()
UpdLock(p) ==
    /\ ~crashed
    /\ pc[p] = "upd_lock"
    /\ sourcesLock = 0
    /\ sourcesLock' = p
    /\ pc' = [pc EXCEPT ![p] = "upd_checkout"]
    /\ UNCHANGED <<logVars, loc, callsLeft, crashed, env, fsVars, stream, hist>>

\* git checkout $TRANSACTION_PROCESSOR_MAIN_BRANCH
UpdCheckout(p) == Checkout(p, "upd_checkout", OnMain, "update", "upd_pull")

\* git pull; return nil
UpdPull(p) == LastCommand(p, "upd_pull", "update")

EnsureStep(p) ==
    \/ EsuStat(p)
    \/ CloneLock(p)
    \/ CloneStart(p)
    \/ CloneRun(p)
    \/ CloneSubSync(p)
    \/ CloneSubUpdate(p)
    \/ UpdLock(p)
    \/ UpdCheckout(p)
    \/ UpdPull(p)

\* --------------------------------------------------------------- inputs
CommitIds == 1..MaxMain
Keys == CommitIds \X BOOLEAN
QueryArgs == (-1)..(MaxMain + 2)
QueryArgsInRange == 0..(MaxMain + 2)
PRAges == {TwoDays - 1, TwoDays, TwoDays + 1, NinetyDays - 240, NinetyDays, NinetyDays + 24}

\* What git log -n 1 of a head commit does: fail says the command exited
\* with an error, json that its output is valid JSON once the sentinels are
\* replaced, date is the authored date string of the commit.
RecentPR == [fail |-> FALSE, json |-> TRUE, date |-> DateString(Now - (TwoDays - 1))]
FailedPRLog == [fail |-> TRUE, json |-> FALSE, date |-> DateString(Now - (TwoDays - 1))]
BadJsonPRLog == [fail |-> FALSE, json |-> FALSE, date |-> DateString(Now - (TwoDays - 1))]
BadDatePRLog == [fail |-> FALSE, json |-> TRUE, date |-> BadDate]

PRLogOutputs ==
    {FailedPRLog, BadJsonPRLog, BadDatePRLog}
    \cup {[fail |-> FALSE, json |-> TRUE, date |-> DateString(Now - a)] : a \in PRAges}

\* Synchronization called repeatedly by one caller: every command may fail,
\* a mainline date may be malformed, a head commit may be unreadable.
EnvSync ==
    [sources |-> {TRUE}, hashes |-> {}, profs |-> {}, chans |-> [p \in Procs |-> {}], scripts |-> {},
     offsets |-> {}, limits |-> {}, incs |-> {},
     menu |-> [p \in Procs |-> IF p = 1 THEN {"uch"} ELSE {}],
     calls |-> [p \in Procs |-> IF p = 1 THEN MaxCalls ELSE 0],
     readers |-> {ReadsAll}, cloneHeads |-> {OnMain}, cloneLeft |-> {FALSE},
     arcShows |-> {FALSE}, archive |-> {ArchiveWhole, ArchiveFailed},
     statErr |-> {FALSE}, ioOk |-> {TRUE}, cmdOk |-> BOOLEAN, jsonOk |-> BOOLEAN,
     lens |-> 0..MaxMain, bad |-> {0, 2},
     merges |-> {{}}, heads |-> {{}, {1}},
     prLogs |-> {RecentPR, FailedPRLog, BadJsonPRLog, BadDatePRLog}]

\* One synchronization over every kind of pull request.
EnvMerge ==
    [sources |-> {TRUE}, hashes |-> {}, profs |-> {}, chans |-> [p \in Procs |-> {}], scripts |-> {},
     offsets |-> {}, limits |-> {}, incs |-> {},
     menu |-> [p \in Procs |-> IF p = 1 THEN {"uch"} ELSE {}],
     calls |-> [p \in Procs |-> IF p = 1 THEN 1 ELSE 0],
     readers |-> {ReadsAll}, cloneHeads |-> {OnMain}, cloneLeft |-> {FALSE},
     arcShows |-> {FALSE}, archive |-> {ArchiveWhole, ArchiveFailed},
     statErr |-> {FALSE}, ioOk |-> {TRUE}, cmdOk |-> {TRUE}, jsonOk |-> {TRUE},
     lens |-> {HeadRecords, HeadRecords + MaxTail}, bad |-> {0},
     merges |-> SUBSET PRIds, heads |-> SUBSET PRIds,
     prLogs |-> PRLogOutputs]

\* One caller that synchronizes and queries, one call after the other.
EnvLog ==
    [sources |-> {TRUE}, hashes |-> {}, profs |-> {}, chans |-> [p \in Procs |-> {}], scripts |-> {},
     offsets |-> QueryArgs, limits |-> QueryArgs, incs |-> BOOLEAN,
     menu |-> [p \in Procs |-> IF p = 1 THEN {"uch", "query"} ELSE {}],
     calls |-> [p \in Procs |-> IF p = 1 THEN MaxCalls ELSE 0],
     readers |-> {ReadsAll}, cloneHeads |-> {OnMain}, cloneLeft |-> {FALSE},
     arcShows |-> {FALSE}, archive |-> {ArchiveWhole, ArchiveFailed},
     statErr |-> {FALSE}, ioOk |-> {TRUE}, cmdOk |-> {TRUE}, jsonOk |-> {TRUE},
     lens |-> {HeadRecords, MaxMain}, bad |-> {0},
     merges |-> {{}}, heads |-> {{}, {1}},
     prLogs |-> {RecentPR}]

\* A caller that synchronizes while another queries with arguments that are
\* not negative: a call that ends in a panic here ends so by the race.
EnvRace ==
    [sources |-> {TRUE}, hashes |-> {}, profs |-> {}, chans |-> [p \in Procs |-> {}], scripts |-> {},
     offsets |-> QueryArgsInRange, limits |-> QueryArgsInRange, incs |-> BOOLEAN,
     menu |-> [p \in Procs |-> IF p = 1 THEN {"uch"} ELSE {"query"}],
     calls |-> [p \in Procs |-> IF p = 1 THEN MaxCalls ELSE 1],
     readers |-> {ReadsAll}, cloneHeads |-> {OnMain}, cloneLeft |-> {FALSE},
     arcShows |-> {FALSE}, archive |-> {ArchiveWhole, ArchiveFailed},
     statErr |-> {FALSE}, ioOk |-> {TRUE}, cmdOk |-> {TRUE}, jsonOk |-> {TRUE},
     lens |-> {HeadRecords, MaxMain}, bad |-> {0},
     merges |-> {{}}, heads |-> {{}, {1}},
     prLogs |-> {RecentPR}]

\* Two callers that compile.
EnvCompile ==
    [sources |-> {TRUE}, hashes |-> {1}, profs |-> BOOLEAN,
     chans |-> [p \in Procs |-> {p = 1}], scripts |-> BOOLEAN,
     offsets |-> {}, limits |-> {}, incs |-> {},
     menu |-> [p \in Procs |-> {"compile"}],
     calls |-> [p \in Procs |-> IF p = 1 THEN MaxCalls ELSE 1],
     readers |-> {ReadsAll}, cloneHeads |-> {OnMain}, cloneLeft |-> {FALSE},
     arcShows |-> {FALSE}, archive |-> {ArchiveWhole, ArchiveFailed},
     statErr |-> {FALSE}, ioOk |-> {TRUE}, cmdOk |-> BOOLEAN, jsonOk |-> {TRUE},
     lens |-> {HeadRecords}, bad |-> {0},
     merges |-> {{}}, heads |-> {{}},
     prLogs |-> {RecentPR}]

\* One caller of Compile, every command of which may fail, those whose
\* result is not looked at included.
EnvPhases ==
    [sources |-> BOOLEAN, hashes |-> {1}, profs |-> BOOLEAN,
     chans |-> [p \in Procs |-> BOOLEAN], scripts |-> BOOLEAN,
     offsets |-> {}, limits |-> {}, incs |-> {},
     menu |-> [p \in Procs |-> IF p = 1 THEN {"compile"} ELSE {}],
     calls |-> [p \in Procs |-> IF p = 1 THEN MaxCalls ELSE 0],
     readers |-> {ReadsAll}, cloneHeads |-> {OnMain}, cloneLeft |-> {FALSE},
     arcShows |-> CreateArchiveShows, archive |-> CreateArchiveOutcomes,
     statErr |-> BOOLEAN, ioOk |-> BOOLEAN, cmdOk |-> BOOLEAN, jsonOk |-> {TRUE},
     lens |-> {}, bad |-> {}, merges |-> {}, heads |-> {}, prLogs |-> {}]

\* A Compile whose caller may leave its stream unread, and a second caller
\* of the operations that wait for the lock.
EnvLive ==
    [sources |-> {TRUE}, hashes |-> {1}, profs |-> {FALSE},
     chans |-> [p \in Procs |-> {p = 1}], scripts |-> BOOLEAN,
     offsets |-> {}, limits |-> {}, incs |-> {},
     menu |-> [p \in Procs |-> IF p = 1 THEN {"compile"}
                                        ELSE {"compile", "mca", "seeder", "uch"}],
     calls |-> [p \in Procs |-> 1],
     readers |-> {0, 1, ReadsAll}, cloneHeads |-> {OnMain}, cloneLeft |-> {FALSE},
     arcShows |-> {FALSE}, archive |-> {ArchiveWhole},
     statErr |-> BOOLEAN, ioOk |-> {TRUE}, cmdOk |-> {TRUE}, jsonOk |-> {TRUE},
     lens |-> {HeadRecords}, bad |-> {0},
     merges |-> {{}}, heads |-> {{1}},
     prLogs |-> {RecentPR}]

\* Two callers, every operation that takes the lock; the second may also
\* call the operations that take none.
EnvLock ==
    [sources |-> BOOLEAN, hashes |-> {1}, profs |-> {FALSE},
     chans |-> [p \in Procs |-> {p = 1}], scripts |-> BOOLEAN,
     offsets |-> {}, limits |-> {}, incs |-> {},
     menu |-> [p \in Procs |-> IF p = 1 THEN {"ensure", "compile", "mca", "seeder"}
                                        ELSE {"ensure", "compile", "mca", "seeder",
                                              "rca", "binpath"}],
     calls |-> [p \in Procs |-> IF p = 1 THEN MaxCalls ELSE 1],
     readers |-> {ReadsAll}, cloneHeads |-> {OnMain, OnDefault}, cloneLeft |-> BOOLEAN,
     arcShows |-> {FALSE}, archive |-> {ArchiveWhole, ArchiveFailed},
     statErr |-> {FALSE}, ioOk |-> {TRUE}, cmdOk |-> BOOLEAN, jsonOk |-> {TRUE},
     lens |-> {HeadRecords}, bad |-> {0},
     merges |-> {{}}, heads |-> {{1}},
     prLogs |-> {RecentPR}]

\* Two callers of the operations that write and read archives, and of the
\* others that take the lock, with everything common.CreateArchive may do.
EnvStore ==
    [sources |-> {TRUE}, hashes |-> {1}, profs |-> {FALSE},
     chans |-> [p \in Procs |-> {p = 1}], scripts |-> BOOLEAN,
     offsets |-> {}, limits |-> {}, incs |-> {},
     menu |-> [p \in Procs |-> IF p = 1 THEN {"compile", "mca", "seeder", "uch"}
                                        ELSE {"compile", "mca", "rca"}],
     calls |-> [p \in Procs |-> IF p = 1 THEN MaxCalls ELSE 1],
     readers |-> {ReadsAll}, cloneHeads |-> {OnMain}, cloneLeft |-> {FALSE},
     arcShows |-> CreateArchiveShows, archive |-> CreateArchiveOutcomes,
     statErr |-> {FALSE}, ioOk |-> {TRUE}, cmdOk |-> BOOLEAN, jsonOk |-> {TRUE},
     lens |-> {HeadRecords}, bad |-> {0},
     merges |-> {{}}, heads |-> {{1}},
     prLogs |-> {RecentPR}]

InitWith(e) ==
    /\ gitLog = <<>>
    /\ logVer = 0
    /\ stored = {<<>>}
    /\ sourcesLock = 0
    /\ pc = [p \in Procs |-> "idle"]
    /\ loc = [p \in Procs |-> LocInit]
    /\ callsLeft = e.calls
    /\ crashed = FALSE
    /\ env = e
    /\ sourcesExist \in e.sources
    /\ headRef = IF sourcesExist THEN OnMain ELSE NoTree
    /\ binDir = FALSE
    /\ arcDir = FALSE
    /\ binArchive = [k \in Keys |-> 0]
    /\ srcArchive = [h \in CommitIds |-> 0]
    /\ stream = [p \in Procs |-> NoStream]
    /\ hist = [builds |-> [k \in Keys |-> 0], first |-> [k \in Keys |-> "none"],
               atOk |-> [k \in Keys |-> 0]]

InitSync == InitWith(EnvSync)

NextSync == \E p \in Procs : UpdateCommitHistoryCall(p) \/ UchStep(p)

SpecSync == InitSync /\ [][NextSync]_vars

InitMerge == InitWith(EnvMerge)

SpecMerge == InitMerge /\ [][NextSync]_vars

InitLog == InitWith(EnvLog)

NextLog ==
    \E p \in Procs :
        UpdateCommitHistoryCall(p) \/ UchStep(p) \/ GetGitLogCall(p) \/ QueryStep(p)

SpecLog == InitLog /\ [][NextLog]_vars

InitRace == InitWith(EnvRace)

SpecRace == InitRace /\ [][NextLog]_vars

InitCompile == InitWith(EnvCompile)

NextCompile == \E p \in Procs : CompileCall(p) \/ CompileStep(p)

SpecCompile == InitCompile /\ [][NextCompile]_vars

InitPhases == InitWith(EnvPhases)

SpecPhases == InitPhases /\ [][NextCompile]_vars

InitLive == InitWith(EnvLive)

NextLive ==
    \E p \in Procs :
        \/ UpdateCommitHistoryCall(p) \/ UchStep(p)
        \/ CompileCall(p) \/ CompileStep(p)
        \/ MakeCommitArchiveCall(p) \/ McaStep(p)
        \/ FindMostRecentCommitChangingSeederCall(p) \/ FsStep(p)

\* A call that has started goes on: every command terminates, and the lock
\* is given to a waiting caller once it is free.
Proceeds(p) == UchStep(p) \/ CompileStep(p) \/ McaStep(p) \/ FsStep(p)

SpecLive == InitLive /\ [][NextLive]_vars /\ \A p \in Procs : WF_vars(Proceeds(p))

InitLock == InitWith(EnvLock)

NextLock ==
    \E p \in Procs :
        \/ EnsureSourcesUpdatedCall(p) \/ EnsureStep(p) \/ UchStep(p)
        \/ CompileCall(p) \/ CompileStep(p)
        \/ MakeCommitArchiveCall(p) \/ McaStep(p)
        \/ FindMostRecentCommitChangingSeederCall(p) \/ FsStep(p)
        \/ ReadCommitArchiveCall(p) \/ ReadCommitArchiveStep(p)
        \/ BinariesArchivePathCall(p) \/ BinariesArchivePathStep(p)

SpecLock == InitLock /\ [][NextLock]_vars

InitStore == InitWith(EnvStore)

NextStore ==
    \E p \in Procs :
        \/ UpdateCommitHistoryCall(p) \/ UchStep(p)
        \/ CompileCall(p) \/ CompileStep(p)
        \/ MakeCommitArchiveCall(p) \/ McaStep(p)
        \/ FindMostRecentCommitChangingSeederCall(p) \/ FsStep(p)
        \/ ReadCommitArchiveCall(p) \/ ReadCommitArchiveStep(p)

SpecStore == InitStore /\ [][NextStore]_vars

\* ================================================================ claims
Returned(p, op) == loc[p].op = op /\ pc[p] = "done"

\* The errors updateCommitHistory returns.
UchErrors == {"export", "unmarshal", "fetch", "lsremote"}

\* The pull requests with an entry in a log.
HasEntry(log, pr) == \E i \in 1..Len(log) : log[i].Subject = <<"PR", pr>>

\* What git log printed for the head commit of pr during the call of p.
Unreadable(out) == out.fail \/ ~out.json \/ ~out.date.wf

\* C1: whenever updateCommitHistory returns a failure (export, structured
\* parse, pull-request fetch, remote-ref listing) the stored log is the one
\* it had before the call; the stored log is written once, by the last step
\* of a call that succeeds, and by no other step.
C1_FailureLeavesLog ==
    \A p \in Procs :
        loc[p].op = "uch" =>
            IF pc[p] = "done" /\ loc[p].err = "nil"
            THEN loc[p].writes = 1
            ELSE /\ loc[p].writes = 0
                 /\ pc[p] # "uch_lock" => gitLog = loc[p].logBefore

C1_Witness ==
    \E p \in Procs :
        /\ Returned(p, "uch")
        /\ loc[p].err = "lsremote"
        /\ loc[p].logBefore # <<>>
        /\ loc[p].newGitLog # <<>>
        /\ Len(loc[p].newGitLog) # Len(gitLog)

\* C2 as claimed: any failure in steps 1-7, a date string that does not
\* parse and an unreadable head commit included, makes the call return a
\* failure and leaves the stored log.
StepFailed(p) ==
    \/ loc[p].err \in UchErrors
    \/ \E i \in 1..Len(loc[p].newGitLog) : ~loc[p].newGitLog[i].Authored.set
    \/ \E po \in loc[p].prOut : Unreadable(po[2])

C2_AnyFailureAborts ==
    \A p \in Procs :
        Returned(p, "uch") /\ StepFailed(p) =>
            loc[p].err \in UchErrors /\ loc[p].writes = 0

\* C3: after a successful call the stored log is the first three mainline
\* records in export order, then the retained pull-request records sorted by
\* authored date, newest first, then the remaining mainline records in export
\* order.
RetainedRecords(p) ==
    {PRRecord(po[1], ParseTime(po[2].date).time) :
        po \in {x \in loc[p].prOut : HasEntry(loc[p].prGitLogs, x[1])}}

C3_MergeOrdering ==
    \A p \in Procs :
        Returned(p, "uch") /\ loc[p].err = "nil" =>
            LET M == loc[p].newGitLog
                k == Len(gitLog) - Len(M)
            IN /\ k = Cardinality(RetainedRecords(p))
               /\ \A i \in 1..HeadRecords : gitLog[i] = M[i]
               /\ \A i \in (HeadRecords + 1)..Len(M) : gitLog[i + k] = M[i]
               /\ {gitLog[HeadRecords + i] : i \in 1..k} = RetainedRecords(p)
               /\ \A i \in 1..(k - 1) :
                     gitLog[HeadRecords + i].Authored.t
                        >= gitLog[HeadRecords + i + 1].Authored.t

C3_Witness ==
    \E p \in Procs :
        /\ Returned(p, "uch")
        /\ loc[p].err = "nil"
        /\ Len(loc[p].newGitLog) >= HeadRecords + 2
        /\ Len(gitLog) = Len(loc[p].newGitLog) + 2
        /\ gitLog[HeadRecords + 1].Authored.t > gitLog[HeadRecords + 2].Authored.t
        /\ gitLog[HeadRecords + 1].Subject = <<"PR", 2>>
        /\ gitLog[HeadRecords + 3] = loc[p].newGitLog[HeadRecords + 1]
        /\ gitLog[HeadRecords + 4] = loc[p].newGitLog[HeadRecords + 2]
        /\ gitLog[HeadRecords + 3] # gitLog[HeadRecords + 4]

\* C4 as claimed: a pull request with a head ref has an entry iff its head
\* commit was authored less than 48 hours ago, or it has a merge ref and the
\* head commit was authored less than 90 days ago.
InWindow(pr, out, merges) ==
    /\ out.date.wf
    /\ \/ Now - out.date.t < TwoDays
       \/ (pr \in merges /\ Now - out.date.t < NinetyDays)

C4_RetentionByDateAlone ==
    \A p \in Procs :
        Returned(p, "uch") /\ loc[p].err = "nil" =>
            \A pr \in PRIds :
                HasEntry(gitLog, pr) <=>
                    /\ pr \in loc[p].heads
                    /\ \E po \in loc[p].prOut :
                          po[1] = pr /\ InWindow(pr, po[2], loc[p].prs)

\* The pull requests whose head commit git log printed, as valid JSON with
\* a date that parses, are retained by the claimed rule; the others have no
\* entry.
RetentionOfReadableHeads ==
    \A p \in Procs :
        Returned(p, "uch") /\ loc[p].err = "nil" =>
            \A pr \in PRIds :
                HasEntry(gitLog, pr) <=>
                    /\ pr \in loc[p].heads
                    /\ \E po \in loc[p].prOut :
                          /\ po[1] = pr
                          /\ ~po[2].fail
                          /\ po[2].json
                          /\ InWindow(pr, po[2], loc[p].prs)

\* The records at positions offset up to min(offset+limit, length)-1.
Smaller(a, b) == IF a < b THEN a ELSE b
Window(L, offset, limit) == SubSeq(L, offset + 1, Smaller(offset + limit, Len(L)))

\* What the claimed result of GetGitLog(offset, limit, false) on the log L is.
ClaimedWindow(p, L) ==
    IF Len(L) = 0
    THEN loc[p].val = <<>> /\ loc[p].err = "nil"
    ELSE IF loc[p].offset >= Len(L)
    THEN loc[p].val = <<>> /\ loc[p].err = "oob"
    ELSE /\ loc[p].err = "nil"
         /\ loc[p].val = Window(L, loc[p].offset, loc[p].limit)

\* C5 as claimed: for every stored log and every offset and limit, negative
\* ones included, GetGitLog(offset, limit, false) comes back with a result:
\* an empty result and no error on an empty log, the out-of-bounds failure on
\* a non-empty log with offset >= length, and otherwise the records at
\* positions offset up to min(offset+limit, length)-1 in log order.
C5_QueryWindow ==
    \A p \in Procs :
        loc[p].op = "query" /\ ~loc[p].inc /\ pc[p] \in {"done", "panicked"} =>
            /\ pc[p] = "done"
            /\ ClaimedWindow(p, loc[p].logBefore)

\* The calls of GetGitLog(offset, limit, false) with offset >= 0 and
\* limit >= 0 come back with the claimed result.
QueryWindowNonNegative ==
    \A p \in Procs :
        loc[p].op = "query" /\ ~loc[p].inc /\ pc[p] \in {"done", "panicked"}
                /\ loc[p].offset >= 0 /\ loc[p].limit >= 0 =>
            /\ pc[p] = "done"
            /\ ClaimedWindow(p, loc[p].logBefore)

\* C6: every GetGitLog(offset, limit, true) that returns records returns the
\* window followed by the last record of the stored log, also when the
\* window already ends with that record.
C6_OldestAppended ==
    \A p \in Procs :
        Returned(p, "query") /\ loc[p].inc /\ loc[p].err = "nil"
                /\ loc[p].logBefore # <<>> =>
            LET L == loc[p].logBefore
                W == Window(L, loc[p].offset, loc[p].limit)
            IN /\ Len(loc[p].val) = Len(W) + 1
               /\ \A i \in 1..Len(W) : loc[p].val[i] = W[i]
               /\ loc[p].val[Len(W) + 1] = L[Len(L)]

C6_Witness ==
    \E p \in Procs :
        /\ Returned(p, "query")
        /\ loc[p].inc
        /\ loc[p].err = "nil"
        /\ Len(loc[p].val) >= 2
        /\ loc[p].val[Len(loc[p].val)] = loc[p].val[Len(loc[p].val) - 1]
        /\ loc[p].offset + loc[p].limit >= Len(loc[p].logBefore)
        /\ loc[p].val[Len(loc[p].val)].CommitHash = 1

\* What a GetGitLog that sees the single log L returns.
QueryOn(L, offset, limit, inc) ==
    IF Len(L) = 0 THEN [val |-> <<>>, err |-> "nil"]
    ELSE IF offset >= Len(L) THEN [val |-> <<>>, err |-> "oob"]
    ELSE [val |-> Window(L, offset, limit) \o (IF inc THEN <<L[Len(L)]>> ELSE <<>>),
          err |-> "nil"]

\* C7: a GetGitLog that runs while updateCommitHistory stores a log computes
\* its result from one log, the one before or the one after the store: it
\* ends, and with what it would return on one of the logs that were stored.
C7_QuerySeesOneLog ==
    \A p \in Procs :
        loc[p].op = "query" =>
            /\ pc[p] # "panicked"
            /\ pc[p] = "done" =>
                  \E L \in stored :
                      [val |-> loc[p].val, err |-> loc[p].err]
                          = QueryOn(L, loc[p].offset, loc[p].limit, loc[p].inc)

Range(f) == {f[i] : i \in DOMAIN f}

\* The program positions between a lock acquisition and the return that
\* releases it.
LockedPcs ==
    {"uch_export", "uch_fetch", "uch_lsremote", "uch_prloop",
     "clone_run", "clone_wait", "clone_subsync", "clone_subupdate", "upd_checkout", "upd_pull",
     "c_tick2", "c_stat", "c_checkout", "c_tick5", "c_subsync", "c_subupdate",
     "c_tick10", "c_rmbuild", "c_tools", "c_deps", "c_legacy", "c_tick50",
     "c_build", "c_tick90", "c_proxy", "c_archive", "c_archive_wait",
     "mca_dirstat", "mca_mkdir", "mca_stat", "mca_checkout", "mca_subsync", "mca_subupdate",
     "mca_archive", "mca_archive_wait",
     "fs_checkout", "fs_log", "fs_main"}

\* The positions where an operation waits for the lock.
WaitingPcs == {"uch_lock", "clone_lock", "upd_lock", "c_lock", "mca_lock", "fs_lock"}

\* C8: at every instant at most one of synchronization, clone/update,
\* Compile, MakeCommitArchive and FindMostRecentCommitChangingSeeder is
\* between its lock acquisition and its return, and that one holds the lock.
C8_OneOperationAtATime ==
    /\ \A p \in Procs : pc[p] \in LockedPcs => sourcesLock = p
    /\ \A p, q \in Procs : p # q => ~(pc[p] \in LockedPcs /\ pc[q] \in LockedPcs)

\* One operation is in the middle of its work on the tree while another,
\* of a different kind, waits for the lock.
C8_Witness ==
    \E p, q \in Procs :
        /\ p # q
        /\ pc[p] \in {"c_build", "mca_archive", "fs_log", "upd_pull", "uch_fetch"}
        /\ pc[q] \in WaitingPcs
        /\ loc[p].op # loc[q].op

CompileReturned(p) == loc[p].op = "compile" /\ pc[p] \in {"c_tick100", "c_close", "done"}

\* For every key, once a Compile of it has succeeded the build script has
\* run exactly once and never runs again; a Compile that takes the lock
\* after such a success runs no command and returns success; and the
\* check-and-build sections of two Compile calls never overlap.
BuildOnce ==
    /\ \A k \in Keys :
          /\ hist.first[k] = "nil" => hist.builds[k] = 1
          /\ hist.atOk[k] > 0 => hist.builds[k] = hist.atOk[k]
    /\ \A p \in Procs :
          loc[p].op = "compile" /\ loc[p].okSeen =>
              /\ loc[p].phases = <<>>
              /\ CompileReturned(p) => loc[p].err = "nil"
    /\ \A p, q \in Procs :
          p # q /\ loc[p].op = "compile" /\ loc[q].op = "compile" =>
              ~(pc[p] \in LockedPcs /\ pc[q] \in LockedPcs)

\* C9 as stated: of the Compile calls for one key, made one after the other
\* or concurrently, where the first to return succeeded, the build runs only
\* once, every other call returns success without running it, and the
\* check-and-build sections of the calls do not overlap.
C9_SecondCallSucceeds ==
    /\ BuildOnce
    /\ \A p \in Procs :
          loc[p].op = "compile" /\ CompileReturned(p) /\ hist.first[Key(p)] = "nil" =>
              loc[p].err = "nil"

\* C10 as stated: a Compile that found the archive runs no command, leaves
\* the archive as it was, succeeds, and reports no progress value beyond
\* those sent before the check.
C10_NoProgressAfterCheck ==
    \A p \in Procs :
        loc[p].op = "compile" /\ loc[p].sawArchive =>
            /\ loc[p].phases = <<>>
            /\ binArchive[Key(p)] = loc[p].archiveSeen
            /\ CompileReturned(p) => loc[p].err = "nil"
            /\ \A i \in 1..Len(stream[p].sent) : stream[p].sent[i] <= 2

\* C10 (amended): when the binary archive for (hash, profilingMode) exists
\* at the time Compile checks it, Compile succeeds with no checkout, no
\* submodule operation, no build and no change to the archive; on a given
\* stream it reports 1 and 2 before the check and then the final 100, after
\* which the stream is closed.
C10_ShortCircuit ==
    \A p \in Procs :
        loc[p].op = "compile" /\ loc[p].sawArchive =>
            /\ loc[p].phases = <<>>
            /\ binArchive[Key(p)] = loc[p].archiveSeen
            /\ CompileReturned(p)
            /\ loc[p].err = "nil"
            /\ sourcesLock # p
            /\ stream[p].chan =>
                  /\ pc[p] = "c_tick100" => stream[p].sent = <<1, 2>> /\ stream[p].closed = 0
                  /\ pc[p] = "c_close" => stream[p].sent = <<1, 2, 100>> /\ stream[p].closed = 0
                  /\ pc[p] = "done" => stream[p].sent = <<1, 2, 100>> /\ stream[p].closed = 1
            /\ ~stream[p].chan => pc[p] = "done" /\ stream[p].sent = <<>>

\* A Compile given a stream found the archive and has returned.
C10_Witness ==
    \E p \in Procs :
        /\ loc[p].op = "compile" /\ loc[p].sawArchive /\ stream[p].chan
        /\ pc[p] = "done"
        /\ binArchive[Key(p)] # 0

\* The stream of a Compile is closed when the call is over and not before,
\* once, after the value 100.
StreamClosedWithCall ==
    \A p \in Procs :
        loc[p].op = "compile" /\ stream[p].chan =>
            /\ stream[p].closed <= 1
            /\ pc[p] = "done" <=> stream[p].closed = 1
            /\ pc[p] = "done" => stream[p].sent[Len(stream[p].sent)] = 100

\* C11: on every path through a Compile that is given a stream, the stream
\* is closed exactly once, when the call is over, and once it is closed
\* nothing is sent on it and it is not closed again.
C11_ClosedExactlyOnce ==
    [][/\ StreamClosedWithCall'
       /\ \A p \in Procs :
             stream[p].closed = 1 =>
                 \/ stream'[p] = stream[p]
                 \/ pc[p] = "done" /\ pc'[p] = "c_path" /\ stream'[p].closed = 0]_vars

\* A Compile given a stream failed before it took the lock and has ended
\* with its stream closed.
C11_Witness ==
    \E p \in Procs :
        /\ loc[p].op = "compile" /\ stream[p].chan
        /\ pc[p] = "done" /\ loc[p].err = "path"
        /\ stream[p].sent = <<100>> /\ stream[p].closed = 1

\* The commands a Compile call has run so far.
Phases(p) == Range(loc[p].phases)

\* The last command a Compile call has run.
LastPhase(p) == loc[p].phases[Len(loc[p].phases)]

\* The environment setup of the call is over and the build is allowed.
SetupPassed(p) == pc[p] \in {"c_tick50", "c_build"} \/ "build" \in Phases(p)

\* C12: a Compile gets past its environment setup with configure.sh run
\* exactly when install-build-tools.sh or setup-dependencies.sh was absent;
\* a present script that fails ends the call at once, with neither
\* configure.sh nor build.sh run; and the absence or failure of a needed
\* configure.sh ends the call before the build.
C12_EnvironmentSetup ==
    \A p \in Procs :
        loc[p].op = "compile" =>
            /\ SetupPassed(p) =>
                  ("configure" \in Phases(p) <=> ~({"tools", "deps"} \subseteq Phases(p)))
            /\ pc[p] = "c_legacy" => ~({"tools", "deps"} \subseteq Phases(p))
            /\ CompileReturned(p) /\ loc[p].err \in {"tools", "deps"} =>
                  /\ LastPhase(p) = loc[p].err
                  /\ Phases(p) \cap {"configure", "build"} = {}
            /\ CompileReturned(p) /\ loc[p].err = "legacy" =>
                  /\ ~({"tools", "deps"} \subseteq Phases(p))
                  /\ "build" \notin Phases(p)

\* One call built after the legacy configuration because a script was
\* absent, and another was ended by the failure of a present script.
C12_Witness ==
    \E p, q \in Procs :
        /\ loc[p].op = "compile" /\ pc[p] = "done" /\ loc[p].err = "nil"
        /\ "tools" \notin Phases(p) /\ "deps" \in Phases(p)
        /\ "configure" \in Phases(p) /\ "build" \in Phases(p)
        /\ loc[q].op = "compile" /\ pc[q] = "done" /\ loc[q].err = "deps"

\* C13 as claimed: at the return of a Compile that fails, whatever made it
\* fail, no binary archive written in full is visible for its key unless
\* one was there before the call.
C13_ArchiveOnlyOnSuccess ==
    [][\A p \in Procs :
           /\ loc[p].op = "compile" /\ ~CompileReturned(p)
           /\ CompileReturned(p)' /\ loc'[p].err # "nil"
           => binArchive'[Key(p)] <= 0 \/ loc[p].hadArchive]_vars

\* A binary archive is written by the last step of a Compile, after its
\* checkout, submodule update and build have succeeded, where no whole
\* archive was.
ArchiveWrittenLast ==
    [][\A k \in Keys :
           binArchive'[k] # binArchive[k] =>
               \E p \in Procs :
                   /\ loc[p].op = "compile" /\ Key(p) = k /\ sourcesLock = p
                   /\ pc[p] \in {"c_archive", "c_archive_wait"}
                   /\ binArchive[k] <= 0
                   /\ {"checkout", "subsync", "subupdate", "build"} \subseteq Phases(p)]_vars

\* The lookup and the mainline checkout of a seeder lookup find the tree on
\* the target commit.
LookupOnTarget ==
    \A p \in Procs :
        loc[p].op = "seeder" /\ pc[p] \in {"fs_log", "fs_main"} =>
            headRef = OnCommit(loc[p].hash)

\* C14: the seeder lookup runs on the checkout of the target commit, the
\* checkout of the mainline branch comes after it, a successful return
\* leaves the tree on the mainline branch and gives the hash the lookup
\* found, and a failure of any of the three steps returns an error and no
\* hash.
C14_SeederLookup ==
    [][/\ LookupOnTarget'
       /\ \A p \in Procs :
             loc[p].op = "seeder" /\ pc[p] # "done" /\ pc'[p] = "done" =>
                 IF loc'[p].err = "nil"
                 THEN /\ pc[p] = "fs_main"
                      /\ headRef' = OnMain
                      /\ loc'[p].val = <<loc[p].found>>
                      /\ loc[p].found <= loc[p].hash
                 ELSE /\ loc'[p].val = <<>>
                      /\ loc'[p].err \in {"checkout", "log", "checkoutmain"}]_vars

\* A lookup has returned the commit it found, and the tree is on the
\* mainline branch.
C14_Witness ==
    \E p \in Procs :
        /\ loc[p].op = "seeder" /\ pc[p] = "done" /\ loc[p].err = "nil"
        /\ loc[p].val = <<1>>
        /\ headRef = OnMain

\* The call of common.CreateArchive that writes the source archive of h,
\* or the binary archive of k, has not returned.
WritingSrc(h) == \E p \in Procs : pc[p] = "mca_archive_wait" /\ loc[p].hash = h
WritingBin(k) == \E p \in Procs : pc[p] = "c_archive_wait" /\ Key(p) = k

PhaseOrder ==
    <<"checkout", "subsync", "subupdate", "rmbuild", "tools", "deps", "configure",
      "build", "proxy", "archive">>

PhaseIndex(ph) == CHOOSE i \in 1..Len(PhaseOrder) : PhaseOrder[i] = ph

\* The commands a call has run are in the order of the source, none twice.
PhasesOrdered(p) ==
    \A i, j \in 1..Len(loc[p].phases) :
        i < j => PhaseIndex(loc[p].phases[i]) < PhaseIndex(loc[p].phases[j])

\* A call that a checked command ended returned that command's failure and
\* ran nothing after it.
CheckedFailureEnds(p) ==
    CompileReturned(p) /\ loc[p].err \in {"checkout", "subsync", "subupdate", "tools",
                                          "deps", "build", "archive"} =>
        LastPhase(p) = loc[p].err

\* C16 as stated: a Compile runs its phases in the fixed order, and a phase
\* that fails is the last one the call runs and makes it return a failure.
C16_EveryPhaseHardFailure ==
    \A p \in Procs :
        loc[p].op = "compile" =>
            /\ PhasesOrdered(p)
            /\ CheckedFailureEnds(p)
            /\ \A i \in 1..Len(loc[p].phases) :
                  loc[p].phases[i] \in loc[p].failed =>
                      /\ i = Len(loc[p].phases)
                      /\ CompileReturned(p)
                      /\ loc[p].err # "nil"

\* C17 as stated: the stored log after a Query is, record by record, the
\* stored log before it.
C17_QueryReadOnly ==
    \A p \in Procs : Returned(p, "query") => gitLog = loc[p].logBefore

\* C18 as stated: every Compile call eventually returns, and every
\* operation waiting for the lock eventually gets it, whether or not the
\* caller of Compile reads the stream.
C18_CompileReturnsAndReleases ==
    /\ \A p \in Procs : (loc[p].op = "compile" /\ pc[p] # "done") ~> (pc[p] = "done")
    /\ \A p \in Procs : (pc[p] \in WaitingPcs) ~> (pc[p] \notin WaitingPcs)

\* C19 as stated: the history export of an EnsureSourcesUpdated runs on
\* the working tree as its clone or update left it: no other caller has
\* changed the checked-out ref in between.
C19_ExportOnUpdatedTree ==
    \A p \in Procs :
        loc[p].op = "ensure" /\ pc[p] = "uch_export" => headRef = loc[p].treeLeft

\* C20 as stated: whatever the length of the mainline history, a
\* Synchronize does not abort abnormally: it returns, and when it returns
\* a failure the stored log is the one it found.
C20_SynchronizeTerminatesNormally ==
    \A p \in Procs :
        loc[p].op = "uch" =>
            /\ pc[p] # "panicked"
            /\ Returned(p, "uch") /\ loc[p].err # "nil" => gitLog = loc[p].logBefore

====
